---- MODULE Spec2Model ----
(***************************************************************************)
(* Verification model of the swimming-efficiency-model repository.         *)
(*                                                                         *)
(* Part I   - the upload hook of the frontend                              *)
(*            (frontend/src/hooks/useFrameData.js, uploadVideo).           *)
(* Part II  - the biomechanical analytics core (analyze): validation,      *)
(*            metric series, stroke cycle detection, phase segmentation.   *)
(*            The analytics code (backend/app/services/analytics.py) is    *)
(*            not part of the source tree at hand; its definitions follow  *)
(*            the written design and are marked as such in the model map.  *)
(***************************************************************************)
EXTENDS Integers, Sequences, FiniteSets, TLC

VARIABLES
    \* ---- useFrameData (React state of the hook) ----
    frameOverlay,      \* null or {videoSrc, frameRate, keypoints}
    totalFrames,       \* number
    uploadError,       \* null or message
    isUploading,       \* boolean
    \* ---- the running uploadVideo invocation and its environment ----
    uploadPc,          \* "idle" | "awaiting" : position of the async function
    uploadArgs,        \* file and trimSettings of the invocation in flight
    uploadRequests,    \* number of POST /upload-video sent
    processRequests,   \* payloads of POST /process-video sent, in order
    processPending,    \* number of /process-video promises not yet settled
    onUploadedCalls,   \* arguments onUploaded was called with, in order
    onProgressLast,    \* last percent passed to onProgress (or null)
    effects,           \* onUploaded calls and /process-video requests, in order
    \* ---- analyze (one invocation) ----
    aInput,            \* [frames, fps, config]
    aPc,               \* "start" | "validated" | "extracted" | "done" | "failed"
    aResult,           \* the AnalysisResult under construction
    aError,            \* null or the hard failure raised
    \* ---- phase segmenter run frame by frame inside one cycle ----
    segConfig,         \* [low, high, margin]: thresholds and hysteresis (tenths)
    segStart,          \* start_frame of the cycle
    segLen,            \* number of frames of the cycle
    segPc,             \* "idle" | "run" | "done"
    segSample,         \* normalized velocity (tenths) of the frame assigned last
    segPhase,          \* phase active at the frame assigned last
    segAssigned,       \* phase assigned to each frame of the cycle so far
    segSegments,       \* the PhaseSegments of the cycle, once it is complete
    \* ---- stroke cycle detector run on one signal ----
    pkSignal,          \* the designated kinematic signal, one sample per frame
    pkConfig,          \* [distance, prominence]
    pkPc,              \* "idle" | "start" | "candidates" | "selected" | "done"
    pkCandidates,      \* frames of the local maxima that pass the prominence test
    pkKeep,            \* frames of the accepted peaks
    pkCycles,          \* the StrokeCycle boundaries
    \* ---- concurrent invocations of analyze ----
    dArgs,             \* [frames, fps, config] of each invocation
    dPc,               \* "idle" | "running" | "done" of each invocation
    dResult,           \* what each invocation returned
    dProcessConfig,    \* process-wide configuration, mutable by anybody
    \* ---- symmetry statistics of one analysis ----
    symPairs,          \* the left/right metric pairs, in order
    symMinPaired,      \* configured minimum number of paired samples
    symPc,             \* "idle" | "start" | "done"
    symStats,          \* the SymmetryStat list
    \* ---- VideoTrimmer (React state of the component) ----
    trDuration,        \* duration
    trStart,           \* startTime
    trEnd,             \* endTime
    trPc,              \* "closed" | "open" | "confirmed"
    trConfirmed,       \* the trimData onConfirm was called with (or null)
    \* ---- DashboardPage with useVideoMetrics and the progress value ----
    currentVideoId,    \* "" or the id of the current video
    progress,          \* progress of useProcessingProgress
    vmMetrics,         \* useVideoMetrics: metrics
    vmNarrative,       \* useVideoMetrics: narrative
    vmIsLoading,       \* useVideoMetrics: isLoading
    vmError,           \* useVideoMetrics: error
    metricsPending,    \* GET /metrics/<id> requests in flight, per video id
    metricsSent,       \* GET /metrics/<id> requests sent, in order
    refetchTimer,      \* ms left on the refetch timer (NoTimer: none pending)
    refetchCalls,      \* video ids refetchMetrics was called for by the timer
    dashEvents,        \* number of user and socket events so far
    dashMounted,        \* the page has been mounted
    \* ---- useKeypoints and the dashboard's current frame ----
    kpVideoId,         \* videoId the hook was rendered with (currentVideoId)
    currentFrame,      \* DashboardPage state, initially 0
    keypoints,         \* fetched frames, in the order of the response
    currentKeypoints,  \* keypoints of the selected frame (or none)
    kpIsLoading,       \* boolean
    kpError,           \* null or error
    kpPending,         \* GET /keypoints/<id> requests in flight, per video id
    kpEvents,          \* number of user events so far (bounded)
    \* ---- FeedbackPanel ----
    coaching,          \* the coaching prop
    fbPc,              \* "props" | "rendered"
    fbRendered         \* what the panel displays

uploadVars == <<frameOverlay, totalFrames, uploadError, isUploading, uploadPc,
                uploadArgs, uploadRequests, processRequests, processPending,
                onUploadedCalls, onProgressLast, effects>>
analyzeVars == <<aInput, aPc, aResult, aError>>
segVars == <<segConfig, segStart, segLen, segPc, segSample, segPhase, segAssigned,
            segSegments>>
peakVars == <<pkSignal, pkConfig, pkPc, pkCandidates, pkKeep, pkCycles>>
coreVars == <<uploadVars, analyzeVars, segVars, peakVars>>
detVars == <<dArgs, dPc, dResult, dProcessConfig>>
symVars == <<symPairs, symMinPaired, symPc, symStats>>
trimVars == <<trDuration, trStart, trEnd, trPc, trConfirmed>>
dashVars == <<currentVideoId, progress, vmMetrics, vmNarrative, vmIsLoading, vmError,
             metricsPending, metricsSent, refetchTimer, refetchCalls, dashEvents,
             dashMounted>>
kpVars == <<kpVideoId, currentFrame, keypoints, currentKeypoints, kpIsLoading, kpError,
           kpPending, kpEvents>>
fbVars == <<coaching, fbPc, fbRendered>>
viewVars == <<kpVars, fbVars>>
extVars == <<detVars, symVars, trimVars, dashVars, viewVars>>
vars == <<coreVars, extVars>>

\* What the steps of one component leave alone: every other component.
notDet == <<coreVars, symVars, trimVars, dashVars, viewVars>>
notSym == <<coreVars, detVars, trimVars, dashVars, viewVars>>
notTrim == <<coreVars, detVars, symVars, dashVars, viewVars>>
notDash == <<coreVars, detVars, symVars, trimVars, viewVars>>
notKp == <<coreVars, detVars, symVars, trimVars, dashVars, fbVars>>
notFb == <<coreVars, detVars, symVars, trimVars, dashVars, kpVars>>

\* null of a string-valued slot, and the null of each object-valued slot
Null == "null"
NoFile == [none |-> "file"]
NoTrim == [none |-> "trimSettings"]
NoData == [none |-> "data"]
NoOverlay == [none |-> "frameOverlay"]
NoArgs == [none |-> "args"]
NoProgress == -1
\* an undefined sample of a metric series
NaN == -1

(***************************************************************************)
(* Part I.  useFrameData.uploadVideo                                       *)
(***************************************************************************)

\* Bound: number of validated uploads one run of the model starts.
MaxUploads == 2

\* const maxSize = 500 * 1024 * 1024
MaxSizeBytes == 500 * 1024 * 1024

\* String.prototype.startsWith
StartsWith(s, prefix) ==
    /\ Len(s) >= Len(prefix)
    /\ SubSeq(s, 1, Len(prefix)) = prefix

\* The File objects a caller may hand to uploadVideo (NoFile: no file).
Files ==
    { [name |-> "swim.mp4",  type |-> "video/mp4",  size |-> 1024],
      [name |-> "limit.mov", type |-> "video/quicktime", size |-> MaxSizeBytes],
      [name |-> "big.mp4",   type |-> "video/mp4",  size |-> MaxSizeBytes + 1],
      [name |-> "pic.png",   type |-> "image/png",  size |-> 1024],
      [name |-> "raw.bin",   type |-> "",           size |-> MaxSizeBytes + 1],
      [name |-> "clip",      type |-> "video",      size |-> 2048] }

\* trimSettings as produced by the trimmer (NoTrim: parameter left at its default).
TrimSettings ==
    { [startTime |-> 0, endTime |-> 30, duration |-> 30],
      [startTime |-> 5, endTime |-> 12, duration |-> 7] }

VideoIds == {"vid-a", "vid-b"}

\* How the POST /upload-video promise may settle.
\*   ok          - resolved; data is missing, or an object whose video_id may be
\*                 missing/empty (Null)
\*   http_error  - rejected with error.response (error text may be absent)
\*   no_response - rejected with error.request only
\*   other       - rejected with neither; message may be empty
UploadOutcomes ==
    { [kind |-> "ok", data |-> [video_id |-> id]] : id \in VideoIds }
    \cup { [kind |-> "ok", data |-> NoData],
           [kind |-> "ok", data |-> [video_id |-> Null]] }
    \cup { [kind |-> "http_error", status |-> 413, statusText |-> "Payload Too Large",
            error |-> e] : e \in {Null, "File too large"} }
    \cup { [kind |-> "http_error", status |-> 500, statusText |-> "Internal Server Error",
            error |-> Null] }
    \cup { [kind |-> "no_response"] }
    \cup { [kind |-> "other", message |-> m] : m \in {Null, "Network Error"} }

UploadFailed(o) ==
    \/ o.kind # "ok"
    \/ o.data = NoData
    \/ o.data.video_id = Null

\* Variant of CatchMessage that tests error.request before error.response (an
\* axios error that carries a response carries its request too).
CatchMessage_RequestFirst(o) ==
    CASE o.kind = "ok" -> "Invalid response from server"
      [] o.kind \in {"http_error", "no_response"} ->
            "Could not connect to server. Make sure the backend is running."
      [] OTHER ->
            IF o.message # Null THEN o.message ELSE "Upload failed. Please try again."

\* The message the catch block of uploadVideo stores for a failed request.
CatchMessage(o) ==
    CASE o.kind = "ok" -> "Invalid response from server"
      [] o.kind = "http_error" ->
            IF o.error # Null THEN o.error
            ELSE "Upload failed: " \o ToString(o.status) \o " " \o o.statusText
      [] o.kind = "no_response" ->
            "Could not connect to server. Make sure the backend is running."
      [] OTHER ->
            IF o.message # Null THEN o.message ELSE "Upload failed. Please try again."

\* Variant of ValidationError without the MIME type test.
ValidationError_NoTypeCheck(file) ==
    IF file = NoFile THEN "No file selected"
    ELSE IF file.size > MaxSizeBytes THEN "File size too large. Maximum size is 500MB"
    ELSE Null

\* The message the validation at the top of uploadVideo stores (Null: accepted).
ValidationError(file) ==
    IF file = NoFile THEN "No file selected"
    ELSE IF ~StartsWith(file.type, "video/") THEN "Please select a valid video file"
    ELSE IF file.size > MaxSizeBytes THEN "File size too large. Maximum size is 500MB"
    ELSE Null

\* processPayload of uploadVideo
\* Variant of ProcessPayload that tests the trim times, not the trim object:
\* a start time of 0 is left out.
ProcessPayload_TruthyTimes(newVideoId, trimSettings) ==
    IF trimSettings # NoTrim /\ trimSettings.startTime # 0
    THEN [video_id |-> newVideoId,
          start_time |-> trimSettings.startTime,
          end_time |-> trimSettings.endTime]
    ELSE [video_id |-> newVideoId]

ProcessPayload(newVideoId, trimSettings) ==
    IF trimSettings # NoTrim
    THEN [video_id |-> newVideoId,
          start_time |-> trimSettings.startTime,
          end_time |-> trimSettings.endTime]
    ELSE [video_id |-> newVideoId]

\* keypoints of the placeholder overlay are drawn with Math.random()
RandomKeypoints == {"kp-1", "kp-2"}

AnalyzeIdle ==
    /\ aInput = NoData
    /\ aPc = "idle"
    /\ aResult = NoData
    /\ aError = Null

SegIdle ==
    /\ segConfig = NoData
    /\ segStart = 0
    /\ segLen = 0
    /\ segPc = "idle"
    /\ segSample = NaN
    /\ segPhase = "idle"
    /\ segAssigned = <<>>
    /\ segSegments = <<>>

PeakIdle ==
    /\ pkSignal = <<>>
    /\ pkConfig = NoData
    /\ pkPc = "idle"
    /\ pkCandidates = {}
    /\ pkKeep = {}
    /\ pkCycles = <<>>

DetIdle ==
    /\ dArgs = NoArgs
    /\ dPc = NoData
    /\ dResult = NoData
    /\ dProcessConfig = NoData

SymIdle ==
    /\ symPairs = <<>>
    /\ symMinPaired = 0
    /\ symPc = "idle"
    /\ symStats = <<>>

TrimIdle ==
    /\ trDuration = 0
    /\ trStart = 0
    /\ trEnd = 0
    /\ trPc = "closed"
    /\ trConfirmed = NoTrim

\* no refetch timer pending
NoTimer == -1
EmptyObject == "{}"

DashIdle ==
    /\ currentVideoId = ""
    /\ progress = 0
    /\ vmMetrics = EmptyObject
    /\ vmNarrative = EmptyObject
    /\ vmIsLoading = FALSE
    /\ vmError = Null
    /\ metricsPending = <<>>
    /\ metricsSent = <<>>
    /\ refetchTimer = NoTimer
    /\ refetchCalls = <<>>
    /\ dashEvents = 0
    /\ dashMounted = FALSE

\* currentKeypoints of useState(null)
NoKeypoints == [video |-> "", frame_index |-> -1]

KpIdle ==
    /\ kpVideoId = ""
    /\ currentFrame = 0
    /\ keypoints = <<>>
    /\ currentKeypoints = NoKeypoints
    /\ kpIsLoading = FALSE
    /\ kpError = Null
    /\ kpPending = <<>>
    /\ kpEvents = 0

\* no coaching prop, nothing rendered
NoCoaching == [improvements |-> <<>>, timeline_segments |-> <<>>, present |-> FALSE]
NoRender == [ui |-> "none"]

FbIdle ==
    /\ coaching = NoCoaching
    /\ fbPc = "idle"
    /\ fbRendered = NoRender

ViewIdle == KpIdle /\ FbIdle

ExtIdle == DetIdle /\ SymIdle /\ TrimIdle /\ DashIdle /\ ViewIdle

UploadIdle ==
    /\ frameOverlay = NoOverlay
    /\ totalFrames = 0
    /\ uploadError = Null
    /\ isUploading = FALSE
    /\ uploadPc = "idle"
    /\ uploadArgs = NoArgs
    /\ uploadRequests = 0
    /\ processRequests = <<>>
    /\ processPending = 0
    /\ onUploadedCalls = <<>>
    /\ onProgressLast = NoProgress
    /\ effects = <<>>

CoreIdle == UploadIdle /\ AnalyzeIdle /\ SegIdle /\ PeakIdle

UploadInit == UploadIdle /\ AnalyzeIdle /\ SegIdle /\ PeakIdle /\ ExtIdle

\* uploadVideo(file, onUploaded, onProgress, trimSettings) up to its first await.
\* The page offers the file input only while no upload runs (disabled={isUploading}).
UploadVideo(file, trimSettings) ==
    /\ uploadPc = "idle"
    /\ IF ValidationError(file) # Null
       THEN /\ uploadError' = ValidationError(file)
            /\ UNCHANGED <<isUploading, uploadPc, uploadArgs, uploadRequests>>
       ELSE /\ uploadRequests < MaxUploads
            /\ isUploading' = TRUE
            /\ uploadError' = Null
            /\ uploadRequests' = uploadRequests + 1
            /\ uploadPc' = "awaiting"
            /\ uploadArgs' = [file |-> file, trimSettings |-> trimSettings]
    /\ UNCHANGED <<frameOverlay, totalFrames, processRequests, processPending,
                   onUploadedCalls, onProgressLast, effects>>
    /\ UNCHANGED <<analyzeVars, segVars, peakVars, extVars>>

\* onUploadProgress callback of the pending request.
UploadProgress(loaded, total) ==
    /\ uploadPc = "awaiting"
    /\ loaded <= total
    /\ IF total # 0
       THEN onProgressLast' = (loaded * 100) \div total
       ELSE UNCHANGED onProgressLast
    /\ UNCHANGED <<frameOverlay, totalFrames, uploadError, isUploading, uploadPc,
                   uploadArgs, uploadRequests, processRequests, processPending,
                   onUploadedCalls, effects>>
    /\ UNCHANGED <<analyzeVars, segVars, peakVars, extVars>>

\* Variant of UploadSettle that resets isUploading at the end of the try body
\* instead of in a finally block.
UploadSettle_NoFinally(o) ==
    /\ uploadPc = "awaiting"
    /\ IF UploadFailed(o)
       THEN /\ uploadError' = CatchMessage(o)
            /\ UNCHANGED <<frameOverlay, totalFrames, processRequests,
                           processPending, onUploadedCalls, isUploading, effects>>
       ELSE /\ onUploadedCalls' = Append(onUploadedCalls, o.data.video_id)
            /\ processRequests' =
                 Append(processRequests,
                        ProcessPayload(o.data.video_id, uploadArgs.trimSettings))
            /\ processPending' = processPending + 1
            /\ effects' = effects \o
                 <<[call |-> "onUploaded", arg |-> o.data.video_id],
                   [call |-> "POST /process-video",
                    arg |-> ProcessPayload(o.data.video_id, uploadArgs.trimSettings)]>>
            /\ \E kp \in RandomKeypoints :
                 frameOverlay' = [videoSrc |-> "blob:" \o uploadArgs.file.name,
                                  frameRate |-> 30,
                                  keypoints |-> kp]
            /\ totalFrames' = 900
            /\ isUploading' = FALSE
            /\ UNCHANGED uploadError
    /\ uploadPc' = "idle"
    /\ uploadArgs' = NoArgs
    /\ UNCHANGED <<uploadRequests, onProgressLast>>
    /\ UNCHANGED <<analyzeVars, segVars, peakVars, extVars>>

\* The rest of uploadVideo once the request settles: try body, catch, finally.
UploadSettle(o) ==
    /\ uploadPc = "awaiting"
    /\ IF UploadFailed(o)
       THEN /\ uploadError' = CatchMessage(o)
            /\ UNCHANGED <<frameOverlay, totalFrames, processRequests,
                           processPending, onUploadedCalls, effects>>
       ELSE /\ onUploadedCalls' = Append(onUploadedCalls, o.data.video_id)
            /\ processRequests' =
                 Append(processRequests,
                        ProcessPayload(o.data.video_id, uploadArgs.trimSettings))
            /\ processPending' = processPending + 1
            /\ effects' = effects \o
                 <<[call |-> "onUploaded", arg |-> o.data.video_id],
                   [call |-> "POST /process-video",
                    arg |-> ProcessPayload(o.data.video_id, uploadArgs.trimSettings)]>>
            /\ \E kp \in RandomKeypoints :
                 frameOverlay' = [videoSrc |-> "blob:" \o uploadArgs.file.name,
                                  frameRate |-> 30,
                                  keypoints |-> kp]
            /\ totalFrames' = 900
            /\ UNCHANGED uploadError
    /\ isUploading' = FALSE
    /\ uploadPc' = "idle"
    /\ uploadArgs' = NoArgs
    /\ UNCHANGED <<uploadRequests, onProgressLast>>
    /\ UNCHANGED <<analyzeVars, segVars, peakVars, extVars>>

\* .then / .catch of the /process-video request
ProcessSettle(ok) ==
    /\ processPending > 0
    /\ processPending' = processPending - 1
    /\ IF ok
       THEN UNCHANGED uploadError
       ELSE uploadError' = "Upload succeeded but processing failed to start"
    /\ UNCHANGED <<frameOverlay, totalFrames, isUploading, uploadPc, uploadArgs,
                   uploadRequests, processRequests, onUploadedCalls, onProgressLast,
                   effects>>
    /\ UNCHANGED <<analyzeVars, segVars, peakVars, extVars>>

\* clearError: () => setUploadError(null)
ClearError ==
    /\ uploadError # Null
    /\ uploadError' = Null
    /\ UNCHANGED <<frameOverlay, totalFrames, isUploading, uploadPc, uploadArgs,
                   uploadRequests, processRequests, processPending,
                   onUploadedCalls, onProgressLast, effects>>
    /\ UNCHANGED <<analyzeVars, segVars, peakVars, extVars>>

Init == UploadInit

Next ==
    \/ \E f \in Files \cup {NoFile}, t \in TrimSettings \cup {NoTrim} : UploadVideo(f, t)
    \/ \E total \in {0, 4}, loaded \in {0, 1, 4} : UploadProgress(loaded, total)
    \/ \E o \in UploadOutcomes : UploadSettle(o)
    \/ \E ok \in BOOLEAN : ProcessSettle(ok)
    \/ ClearError

Spec == Init /\ [][Next]_vars

\* The request always settles (axios timeout: 300000 ms) and the event loop
\* runs the continuation of a settled promise.
FairSpec == Spec /\ WF_vars(\E o \in UploadOutcomes : UploadSettle(o))

(***************************************************************************)
(* Claims about uploadVideo                                                *)
(***************************************************************************)

\* The files of the model whose MIME type starts with "video/" and whose size
\* is at most 500MB, written out independently of the hook's validation.
C6_Acceptable(f) ==
    /\ f # NoFile
    /\ f.type \in {"video/mp4", "video/quicktime"}
    /\ f.size <= 524288000

C6_Message(f) ==
    IF f = NoFile THEN "No file selected"
    ELSE IF f.type \notin {"video/mp4", "video/quicktime"}
         THEN "Please select a valid video file"
         ELSE "File size too large. Maximum size is 500MB"

\* C6: uploadVideo sends the /upload-video request only for a file whose MIME
\* type starts with "video/" and whose size is at most 500MB; for a missing
\* file, a non-video file or a file larger than 500MB the call sets the
\* corresponding uploadError, sends no request, does not call onUploaded and
\* leaves isUploading false.
C6_UploadOnlyValidatedFile ==
    [][\A f \in Files \cup {NoFile}, t \in TrimSettings \cup {NoTrim} :
         UploadVideo(f, t) =>
           /\ (uploadRequests' # uploadRequests => C6_Acceptable(f))
           /\ (~C6_Acceptable(f) =>
                 /\ uploadError' = C6_Message(f)
                 /\ uploadRequests' = uploadRequests
                 /\ onUploadedCalls' = onUploadedCalls
                 /\ processRequests' = processRequests
                 /\ isUploading = FALSE
                 /\ isUploading' = FALSE)]_vars

\* A rejected call after an accepted one: the too-large message is shown, one
\* request was sent (for the earlier, accepted file) and nothing is uploading.
C6_Witness ==
    /\ uploadError = "File size too large. Maximum size is 500MB"
    /\ uploadRequests = 1
    /\ isUploading = FALSE

\* C7: isUploading is true exactly while an accepted upload is in flight
\* (request sent, not yet settled), and every upload in flight is followed by
\* a state where isUploading is false again, whatever the outcome.
C7_IsUploadingWhileInFlight ==
    /\ [](isUploading <=> uploadPc = "awaiting")
    /\ [](isUploading => <>(~isUploading))

\* An upload has settled with a failure and isUploading is false again.
C7_Witness ==
    /\ uploadRequests >= 1
    /\ uploadPc = "idle"
    /\ isUploading = FALSE
    /\ uploadError = "Could not connect to server. Make sure the backend is running."

\* The message the claim gives for each kind of failure.
C8_Expected(o) ==
    CASE o.kind = "http_error" /\ o.error # Null -> o.error
      [] o.kind = "http_error" /\ o.status = 413 -> "Upload failed: 413 Payload Too Large"
      [] o.kind = "http_error" /\ o.status = 500 -> "Upload failed: 500 Internal Server Error"
      [] o.kind = "no_response" ->
            "Could not connect to server. Make sure the backend is running."
      [] o.kind = "ok" -> "Invalid response from server"
      [] OTHER -> IF o.message # Null THEN o.message ELSE "Upload failed. Please try again."

C8_Failure(o) ==
    \/ o.kind \in {"http_error", "no_response", "other"}
    \/ o.kind = "ok" /\ o.data \notin {[video_id |-> id] : id \in VideoIds}

\* C8: when the upload request fails, uploadError is set according to the kind
\* of failure, onUploaded is not called, no /process-video request is sent and
\* frameOverlay and totalFrames keep their values.
C8_FailureSetsErrorOnly ==
    [][\A o \in UploadOutcomes :
         (UploadSettle(o) /\ C8_Failure(o)) =>
           /\ uploadError' = C8_Expected(o)
           /\ onUploadedCalls' = onUploadedCalls
           /\ processRequests' = processRequests
           /\ processPending' = processPending
           /\ frameOverlay' = frameOverlay
           /\ totalFrames' = totalFrames]_vars

\* A second upload failed with a server error after a first one succeeded: the
\* overlay of the first upload is still there.
C8_Witness ==
    /\ uploadRequests = 2
    /\ uploadPc = "idle"
    /\ uploadError = "Upload failed: 500 Internal Server Error"
    /\ Len(onUploadedCalls) = 1
    /\ frameOverlay # NoOverlay

\* C13: a /process-video request is sent only in the step in which the
\* pending upload resolves with a video_id, right after onUploaded was called
\* with that id, and one request per such upload; its payload carries that
\* video_id, and start_time and end_time (the trim's startTime and endTime)
\* exactly when trim settings were passed.
C13_ProcessAfterUploaded ==
    [][(\/ processRequests' # processRequests
        \/ onUploadedCalls' # onUploadedCalls
        \/ effects' # effects) =>
         \E id \in VideoIds :
           LET payload == processRequests'[Len(processRequests')]
               trim == uploadArgs.trimSettings
           IN /\ uploadPc = "awaiting"
              /\ onUploadedCalls' = Append(onUploadedCalls, id)
              /\ processRequests' = Append(processRequests, payload)
              /\ effects' = effects \o <<[call |-> "onUploaded", arg |-> id],
                                         [call |-> "POST /process-video",
                                          arg |-> payload]>>
              /\ payload.video_id = id
              /\ IF trim = NoTrim
                 THEN DOMAIN payload = {"video_id"}
                 ELSE /\ DOMAIN payload = {"video_id", "start_time", "end_time"}
                      /\ payload.start_time = trim.startTime
                      /\ payload.end_time = trim.endTime]_vars

\* Two uploads succeeded, one trimmed from 0 and one untrimmed: two onUploaded
\* calls, each followed by its /process-video request.
C13_Witness ==
    /\ Len(effects) = 4
    /\ \E k \in {2, 4} : DOMAIN effects[k].arg = {"video_id"}
    /\ \E k \in {2, 4} :
         /\ DOMAIN effects[k].arg = {"video_id", "start_time", "end_time"}
         /\ effects[k].arg.start_time = 0

(***************************************************************************)
(* Part II.  The analytics core.  The code of analyze is not in the source *)
(* tree; the definitions below follow the design document (sections 3-8)   *)
(* and the algorithm summary in ACADEMIC_ANALYSIS.md (3.3-3.7).            *)
(* Frames are numbered by their position in the processed sequence.        *)
(***************************************************************************)

(*************************** Phase segmenter *******************************)

\* Normalized velocity is kept in tenths: 0..Scale stands for 0.0 .. 1.0.
Scale == 10
\* Catch < 0.2 <= Pull <= 0.6 < Push (ACADEMIC_ANALYSIS.md 3.4.3)
CatchPullThreshold == 2
PullPushThreshold == 6

\* Bounds of the segmenter runs.
MaxCycleLen == 5
MaxMargin == 2

Phases == <<"catch", "pull", "push", "recovery">>

Rank(phase) == CHOOSE k \in 1..Len(Phases) : Phases[k] = phase

\* Configurations: the documented thresholds and a narrower pair, each with
\* every hysteresis margin up to MaxMargin.
SegConfigs ==
    { [low |-> CatchPullThreshold, high |-> PullPushThreshold, margin |-> m] :
        m \in 0..MaxMargin }
    \cup { [low |-> 3, high |-> 5, margin |-> m] : m \in 0..MaxMargin }

Samples == (0..Scale) \cup {NaN}

\* Variant of PhaseStep that classifies each frame by the thresholds alone,
\* without state (the table of ACADEMIC_ANALYSIS.md 3.4.3 read literally).
PhaseStep_Stateless(phase, v, cfg) ==
    IF v = NaN THEN phase
    ELSE IF v < cfg.low THEN "catch"
    ELSE IF v <= cfg.high THEN "pull"
    ELSE "push"

\* Variant of PhaseStep whose backward transitions ignore the margin.
PhaseStep_NoMargin(phase, v, cfg) ==
    IF v = NaN THEN phase
    ELSE CASE phase = "catch" -> IF v >= cfg.low THEN "pull" ELSE "catch"
           [] phase = "pull" ->
                IF v > cfg.high THEN "push"
                ELSE IF v < cfg.low THEN "catch"
                ELSE "pull"
           [] phase = "push" ->
                IF v <= cfg.low - cfg.margin THEN "recovery"
                ELSE IF v <= cfg.high THEN "pull"
                ELSE "push"
           [] OTHER -> "recovery"

\* One step of the state machine: the phase of a frame from the phase of the
\* frame before it and the frame's normalized velocity v.
\*   forward  catch -> pull at v >= low, pull -> push at v > high,
\*            push -> recovery once v is back in the catch range (<= low - margin)
\*   backward pull -> catch at v <= low - margin, push -> pull at v <= high - margin
\* Every comparison with an undefined sample is false: the phase stays.
PhaseStep(phase, v, cfg) ==
    IF v = NaN THEN phase
    ELSE CASE phase = "catch" -> IF v >= cfg.low THEN "pull" ELSE "catch"
           [] phase = "pull" ->
                IF v > cfg.high THEN "push"
                ELSE IF v <= cfg.low - cfg.margin THEN "catch"
                ELSE "pull"
           [] phase = "push" ->
                IF v <= cfg.low - cfg.margin THEN "recovery"
                ELSE IF v <= cfg.high - cfg.margin THEN "pull"
                ELSE "push"
           [] OTHER -> "recovery"

\* Variant of FramePhase that lets the first frame's velocity decide its phase.
FramePhase_NoInitial(assigned, prev, v, cfg) ==
    IF assigned = <<>> THEN PhaseStep("catch", v, cfg) ELSE PhaseStep(prev, v, cfg)

\* The phase of the next frame of a cycle: the first frame is in the initial
\* state catch, every later frame takes one step from its predecessor.
FramePhase(assigned, prev, v, cfg) ==
    IF assigned = <<>> THEN "catch" ELSE PhaseStep(prev, v, cfg)

RECURSIVE SegmentsFrom(_, _, _, _)
\* Run-length grouping of the per-frame phases, frames i.. of the cycle.
SegmentsFrom(assigned, start, i, acc) ==
    IF i > Len(assigned) THEN acc
    ELSE LET f == start + i - 1
             n == Len(acc)
         IN IF n > 0 /\ acc[n].phase = assigned[i]
            THEN SegmentsFrom(assigned, start, i + 1,
                              [acc EXCEPT ![n].end_frame = f])
            ELSE SegmentsFrom(assigned, start, i + 1,
                              Append(acc, [phase |-> assigned[i],
                                           start_frame |-> f,
                                           end_frame |-> f]))

RECURSIVE SegmentsFrom_Shared(_, _, _, _)
\* Variant of the grouping that closes a segment on the frame of the change.
SegmentsFrom_Shared(assigned, start, i, acc) ==
    IF i > Len(assigned) THEN acc
    ELSE LET f == start + i - 1
             n == Len(acc)
         IN IF n > 0 /\ acc[n].phase = assigned[i]
            THEN SegmentsFrom_Shared(assigned, start, i + 1,
                                     [acc EXCEPT ![n].end_frame = f])
            ELSE SegmentsFrom_Shared(assigned, start, i + 1,
                   Append(IF n > 0 THEN [acc EXCEPT ![n].end_frame = f] ELSE acc,
                          [phase |-> assigned[i],
                           start_frame |-> f,
                           end_frame |-> f]))

PhaseSegments_SharedBoundary(assigned, start) ==
    SegmentsFrom_Shared(assigned, start, 1, <<>>)

\* The PhaseSegments of a cycle that starts at frame start.
PhaseSegments(assigned, start) == SegmentsFrom(assigned, start, 1, <<>>)

SegInit ==
    /\ segConfig \in SegConfigs
    /\ segStart \in {0, 7}
    /\ segLen \in 1..MaxCycleLen
    /\ segPc = "run"
    /\ segSample = NaN
    /\ segPhase = "catch"
    /\ segAssigned = <<>>
    /\ segSegments = <<>>
    /\ UploadIdle /\ AnalyzeIdle /\ PeakIdle /\ ExtIdle

\* The segmenter assigns the next frame of the cycle.
SegFrame(v) ==
    /\ segPc = "run"
    /\ Len(segAssigned) < segLen
    /\ segSample' = v
    /\ segPhase' = FramePhase(segAssigned, segPhase, v, segConfig)
    /\ segAssigned' = Append(segAssigned, segPhase')
    /\ UNCHANGED <<segConfig, segStart, segLen, segPc, segSegments>>
    /\ UNCHANGED <<uploadVars, analyzeVars, peakVars, extVars>>

\* The cycle is complete: its frames are grouped into PhaseSegments.
SegFinish ==
    /\ segPc = "run"
    /\ Len(segAssigned) = segLen
    /\ segSegments' = PhaseSegments(segAssigned, segStart)
    /\ segPc' = "done"
    /\ UNCHANGED <<segConfig, segStart, segLen, segSample, segPhase, segAssigned>>
    /\ UNCHANGED <<uploadVars, analyzeVars, peakVars, extVars>>

SegNext ==
    \/ \E v \in Samples : SegFrame(v)
    \/ SegFinish

SpecSeg == SegInit /\ [][SegNext]_vars

(***************************************************************************)
(* Claims about the phase segmenter                                        *)
(***************************************************************************)

\* C1: the PhaseSegments of a cycle are contiguous and non-overlapping and
\* cover exactly [start_frame, end_frame]: the first starts at start_frame,
\* the last ends at end_frame, each starts one frame after its predecessor
\* ends, and every frame of the cycle lies in exactly one segment.
C1_PhasesCoverCycle ==
    segPc = "done" =>
        LET S == segSegments
            first == segStart
            last == segStart + segLen - 1
        IN /\ Len(S) >= 1
           /\ S[1].start_frame = first
           /\ S[Len(S)].end_frame = last
           /\ \A k \in 1..Len(S) : S[k].start_frame <= S[k].end_frame
           /\ \A k \in 1..(Len(S) - 1) : S[k + 1].start_frame = S[k].end_frame + 1
           /\ \A f \in first..last :
                Cardinality({k \in 1..Len(S) :
                               S[k].start_frame <= f /\ f <= S[k].end_frame}) = 1
           /\ \A k \in 1..Len(S) : \A f \in S[k].start_frame..S[k].end_frame :
                segAssigned[f - first + 1] = S[k].phase

\* A finished cycle that went through all four phases.
C1_Witness ==
    /\ segPc = "done"
    /\ Len(segSegments) = 4
    /\ segSegments[4].phase = "recovery"
    /\ segStart = 7

C3_EntryThreshold(phase, cfg) == IF phase = "pull" THEN cfg.low ELSE cfg.high

MaxSignalLen == 7
MaxHeight == 1
MaxDistance == 3

\* All sequences over S of length at most n.
SeqsUpTo(S, n) == UNION { [1..k -> S] : k \in 0..n }

Abs(x) == IF x < 0 THEN 0 - x ELSE x

\* A strict local maximum; a comparison with an undefined sample is false.
IsLocalMax(s, i) ==
    /\ 1 < i /\ i < Len(s)
    /\ s[i] # NaN /\ s[i - 1] # NaN /\ s[i + 1] # NaN
    /\ s[i - 1] < s[i]
    /\ s[i + 1] < s[i]

\* Lowest sample between frame i and the nearest higher (or undefined) sample
\* in direction dir, or the end of the signal.
RECURSIVE BaseLevel(_, _, _, _, _)
BaseLevel(s, i, j, dir, low) ==
    IF j < 1 \/ j > Len(s) THEN low
    ELSE IF s[j] = NaN \/ s[j] > s[i] THEN low
    ELSE BaseLevel(s, i, j + dir, dir, IF s[j] < low THEN s[j] ELSE low)

\* Amplitude of the peak at frame i above its local baseline.
Prominence(s, i) ==
    LET left == BaseLevel(s, i, i - 1, -1, s[i])
        right == BaseLevel(s, i, i + 1, 1, s[i])
    IN s[i] - (IF left > right THEN left ELSE right)

\* Local maxima whose prominence reaches the configured minimum.
Candidates(s, cfg) ==
    {i \in 1..Len(s) : IsLocalMax(s, i) /\ Prominence(s, i) >= cfg.prominence}

RECURSIVE SelectLater(_, _, _, _)
SelectLater(s, remaining, kept, distance) ==
    IF remaining = {} THEN kept
    ELSE LET best == CHOOSE i \in remaining :
                        \A j \in remaining : s[i] > s[j] \/ (s[i] = s[j] /\ i >= j)
         IN SelectLater(s, {j \in remaining : Abs(j - best) >= distance},
                        kept \cup {best}, distance)

\* Variant of SelectByDistance that resolves equal heights to the later peak
\* (the order a sort by height that is walked from its end produces).
SelectByDistance_LaterWins(s, cands, distance) == SelectLater(s, cands, {}, distance)

RECURSIVE SelectFrom(_, _, _, _)
\* Peaks are accepted in order of height, of two equal ones the earlier first;
\* an accepted peak removes every candidate closer than distance to it.
SelectFrom(s, remaining, kept, distance) ==
    IF remaining = {} THEN kept
    ELSE LET best == CHOOSE i \in remaining :
                        \A j \in remaining : s[i] > s[j] \/ (s[i] = s[j] /\ i <= j)
         IN SelectFrom(s, {j \in remaining : Abs(j - best) >= distance},
                       kept \cup {best}, distance)

SelectByDistance(s, cands, distance) == SelectFrom(s, cands, {}, distance)

\* The accepted peaks of a signal.
FindPeaks(s, cfg) == SelectByDistance(s, Candidates(s, cfg), cfg.distance)

RECURSIVE SortedSeq(_)
\* The elements of a set of frames in increasing order.
SortedSeq(S) ==
    IF S = {} THEN <<>>
    ELSE LET m == CHOOSE x \in S : \A y \in S : x <= y
         IN <<m>> \o SortedSeq(S \ {m})

\* Cycle boundaries: with at least two peaks, one cycle starts at each peak
\* and runs to the frame before the next peak (the last one to the end of the
\* sequence); with fewer than two peaks there is no cycle.
StrokeCycles(peaks, n) ==
    IF Cardinality(peaks) < 2 THEN <<>>
    ELSE LET ps == SortedSeq(peaks)
         IN [k \in 1..Len(ps) |->
               [cycle_id |-> k,
                start_frame |-> ps[k],
                end_frame |-> IF k < Len(ps) THEN ps[k + 1] - 1 ELSE n]]

PeakConfigs ==
    [distance : 1..MaxDistance, prominence : {0, 1}]

PeakInit ==
    /\ pkSignal \in SeqsUpTo(0..MaxHeight, MaxSignalLen)
    /\ pkConfig \in PeakConfigs
    /\ pkPc = "start"
    /\ pkCandidates = {}
    /\ pkKeep = {}
    /\ pkCycles = <<>>
    /\ UploadIdle /\ AnalyzeIdle /\ SegIdle /\ ExtIdle

PkFindCandidates ==
    /\ pkPc = "start"
    /\ pkCandidates' = Candidates(pkSignal, pkConfig)
    /\ pkPc' = "candidates"
    /\ UNCHANGED <<pkSignal, pkConfig, pkKeep, pkCycles>>
    /\ UNCHANGED <<uploadVars, analyzeVars, segVars, extVars>>

PkSelect ==
    /\ pkPc = "candidates"
    /\ pkKeep' = SelectByDistance(pkSignal, pkCandidates, pkConfig.distance)
    /\ pkPc' = "selected"
    /\ UNCHANGED <<pkSignal, pkConfig, pkCandidates, pkCycles>>
    /\ UNCHANGED <<uploadVars, analyzeVars, segVars, extVars>>

PkCycles ==
    /\ pkPc = "selected"
    /\ pkCycles' = StrokeCycles(pkKeep, Len(pkSignal))
    /\ pkPc' = "done"
    /\ UNCHANGED <<pkSignal, pkConfig, pkCandidates, pkKeep>>
    /\ UNCHANGED <<uploadVars, analyzeVars, segVars, extVars>>

PeakNext == PkFindCandidates \/ PkSelect \/ PkCycles

SpecPeaks == PeakInit /\ [][PeakNext]_vars

(***************************************************************************)
(* Claims about the stroke cycle detector                                  *)
(***************************************************************************)

\* Two candidates of equal height that are closer than the minimum distance.
C10_Tied(p, q) ==
    /\ p < q
    /\ pkSignal[p] = pkSignal[q]
    /\ q - p < pkConfig.distance

MaxFrames == 5
MaxY == 1

\* Visibility scores are kept in tenths; a landmark below the configured
\* threshold is absent.
Visible(visibility, cfg) == visibility >= cfg.visThreshold

\* One frame of the model: the vertical position of the tracked hand, the
\* visibility of the hand landmark and that of the trunk landmarks.
FullyVisible == [visHand |-> 8, visBody |-> 8]
Occlusions == { [visHand |-> 3, visBody |-> 8], [visHand |-> 3, visBody |-> 3] }

\* The frames with hand positions ys, those of the frames from..to occluded.
FramesOf(ys, from, to, occ) ==
    [i \in 1..Len(ys) |->
       [y |-> ys[i],
        visHand |-> IF from <= i /\ i <= to THEN occ.visHand ELSE FullyVisible.visHand,
        visBody |-> IF from <= i /\ i <= to THEN occ.visBody ELSE FullyVisible.visBody]]

\* Every landmark sequence of n frames in which one stretch of frames (maybe
\* none, maybe all) is occluded.
LandmarkSequences(n) ==
    { FramesOf(ys, 1, 0, FullyVisible) : ys \in [1..n -> 0..MaxY] }
    \cup { FramesOf(a.ys, a.from, a.to, a.occ) :
             a \in { b \in [ys : [1..n -> 0..MaxY], from : 1..n, to : 1..n,
                            occ : Occlusions] : b.from <= b.to } }

AnalyzeInputs(maxLen) ==
    UNION { LandmarkSequences(n) : n \in 0..maxLen }

\* Frame rates: a float that may be non-positive or not finite.
FrameRates ==
    { [finite |-> TRUE, value |-> 30],
      [finite |-> TRUE, value |-> 0],
      [finite |-> FALSE, value |-> 0] }

DefaultConfig ==
    [visThreshold |-> 5,
     distance |-> 2,
     prominence |-> 1,
     low |-> CatchPullThreshold,
     high |-> PullPushThreshold,
     margin |-> 1]

AnalyzeConfigs == { DefaultConfig }

HandVisible(frame, cfg) == Visible(frame.visHand, cfg)
BodyVisible(frame, cfg) == Visible(frame.visBody, cfg)

\* A frame is valid unless every landmark of it is absent.
ValidFrame(frame, cfg) == HandVisible(frame, cfg) \/ BodyVisible(frame, cfg)

ValidFrameCount(frames, cfg) ==
    Cardinality({i \in 1..Len(frames) : ValidFrame(frames[i], cfg)})

\* Variant of InputError that lets a zero frame rate through.
InputError_ZeroFps(frames, fps, cfg) ==
    IF ~fps.finite \/ fps.value < 0 THEN "InvalidFrameRateError"
    ELSE IF ValidFrameCount(frames, cfg) < 2 THEN "InsufficientDataError"
    ELSE Null

\* The hard failure analyze raises for an input (Null: none).
InputError(frames, fps, cfg) ==
    IF ~fps.finite \/ fps.value <= 0 THEN "InvalidFrameRateError"
    ELSE IF ValidFrameCount(frames, cfg) < 2 THEN "InsufficientDataError"
    ELSE Null

\* The last frame before i in which the hand is visible (0: none).
PrevHandFrame(frames, i, cfg) ==
    LET earlier == {j \in 1..(i - 1) : HandVisible(frames[j], cfg)}
    IN IF earlier = {} THEN 0 ELSE CHOOSE j \in earlier : \A k \in earlier : k <= j

\* Velocity of the hand at frame i: displacement since the previous frame in
\* which it is visible, times fps.
HandVelocity(frames, i, fps, cfg) ==
    IF ~HandVisible(frames[i], cfg) THEN NaN
    ELSE LET j == PrevHandFrame(frames, i, cfg)
         IN IF j = 0 THEN 0 ELSE Abs(frames[i].y - frames[j].y) * fps.value

\* Variant of ExtractMetrics that leaves out the frames whose hand is absent.
ExtractMetrics_SkipAbsent(frames, fps, cfg) ==
    LET seen == SelectSeq(frames, LAMBDA f : HandVisible(f, cfg))
    IN [hand_y |-> [i \in 1..Len(seen) |-> seen[i].y],
        hand_velocity |-> [i \in 1..Len(seen) |->
                             IF i = 1 THEN 0
                             ELSE Abs(seen[i].y - seen[i - 1].y) * fps.value],
        body_roll |-> [i \in 1..Len(frames) |->
                         IF BodyVisible(frames[i], cfg) THEN 0 ELSE NaN]]

\* The metric series, one sample per frame.
ExtractMetrics(frames, fps, cfg) ==
    [hand_y |-> [i \in 1..Len(frames) |->
                   IF HandVisible(frames[i], cfg) THEN frames[i].y ELSE NaN],
     hand_velocity |-> [i \in 1..Len(frames) |-> HandVelocity(frames, i, fps, cfg)],
     body_roll |-> [i \in 1..Len(frames) |->
                      IF BodyVisible(frames[i], cfg) THEN 0 ELSE NaN]]

\* Min-max scaling of a series to 0..Scale; undefined samples stay undefined.
Normalize(series) ==
    LET defined == {series[i] : i \in {k \in 1..Len(series) : series[k] # NaN}}
        lo == CHOOSE x \in defined : \A y \in defined : x <= y
        hi == CHOOSE x \in defined : \A y \in defined : x >= y
    IN [i \in 1..Len(series) |->
          IF series[i] = NaN THEN NaN
          ELSE IF hi = lo THEN 0
          ELSE ((series[i] - lo) * Scale) \div (hi - lo)]

RECURSIVE AssignFrom(_, _, _, _)
\* The phase of every frame of one cycle.
AssignFrom(samples, i, acc, cfg) ==
    IF i > Len(samples) THEN acc
    ELSE AssignFrom(samples, i + 1,
                    Append(acc, FramePhase(acc,
                                           IF acc = <<>> THEN "catch" ELSE acc[Len(acc)],
                                           samples[i], cfg)),
                    cfg)

AssignPhases(samples, cfg) == AssignFrom(samples, 1, <<>>, cfg)

\* The cycles of the result, each with its PhaseSegments.
CyclesWithPhases(cycles, velocity, cfg) ==
    LET norm == Normalize(velocity)
    IN [k \in 1..Len(cycles) |->
          [cycle_id |-> cycles[k].cycle_id,
           start_frame |-> cycles[k].start_frame,
           end_frame |-> cycles[k].end_frame,
           phases |-> PhaseSegments(
                        AssignPhases(SubSeq(norm, cycles[k].start_frame,
                                            cycles[k].end_frame), cfg),
                        cycles[k].start_frame)]]

\* (number_of_cycles / duration_seconds) * 60, duration = frames / fps;
\* 0 when there is no cycle.
StrokeRate(nCycles, nFrames, fps) ==
    IF nCycles = 0 THEN 0 ELSE (nCycles * fps.value * 60) \div nFrames

\* Variant of DetectResult that returns early, without the metrics, when no
\* cycle is found.
DetectResult_EarlyReturn(frames, fps, cfg, metrics) ==
    LET peaks == FindPeaks(metrics.hand_y, cfg)
        cycles == StrokeCycles(peaks, Len(frames))
    IN [metrics |-> IF Len(cycles) = 0
                    THEN [hand_y |-> <<>>, hand_velocity |-> <<>>, body_roll |-> <<>>]
                    ELSE metrics,
        peaks |-> peaks,
        cycles |-> CyclesWithPhases(cycles, metrics.hand_velocity, cfg),
        stroke_rate |-> StrokeRate(Len(cycles), Len(frames), fps),
        no_cycles |-> Len(cycles) = 0]

\* The AnalysisResult: the metric series, the cycles found in the hand
\* position with their phases, the stroke rate and the no-cycles flag.
DetectResult(frames, fps, cfg, metrics) ==
    LET peaks == FindPeaks(metrics.hand_y, cfg)
        cycles == StrokeCycles(peaks, Len(frames))
    IN [metrics |-> metrics,
        peaks |-> peaks,
        cycles |-> CyclesWithPhases(cycles, metrics.hand_velocity, cfg),
        stroke_rate |-> StrokeRate(Len(cycles), Len(frames), fps),
        no_cycles |-> Len(cycles) = 0]

AnalyzeInit ==
    /\ aInput \in [frames : AnalyzeInputs(MaxFrames), fps : FrameRates,
                  config : AnalyzeConfigs]
    /\ aPc = "start"
    /\ aResult = NoData
    /\ aError = Null
    /\ UploadIdle /\ SegIdle /\ PeakIdle /\ ExtIdle

\* Input validation: the only place analyze raises.
AValidate ==
    /\ aPc = "start"
    /\ aError' = InputError(aInput.frames, aInput.fps, aInput.config)
    /\ aPc' = IF aError' = Null THEN "validated" ELSE "failed"
    /\ UNCHANGED <<aInput, aResult>>
    /\ UNCHANGED <<uploadVars, segVars, peakVars, extVars>>

\* Kinematic feature extraction.
AExtract ==
    /\ aPc = "validated"
    /\ aResult' = [metrics |-> ExtractMetrics(aInput.frames, aInput.fps, aInput.config)]
    /\ aPc' = "extracted"
    /\ UNCHANGED <<aInput, aError>>
    /\ UNCHANGED <<uploadVars, segVars, peakVars, extVars>>

\* Cycle detection, phase segmentation and stroke rate; the result is returned.
ADetect ==
    /\ aPc = "extracted"
    /\ aResult' = DetectResult(aInput.frames, aInput.fps, aInput.config, aResult.metrics)
    /\ aPc' = "done"
    /\ UNCHANGED <<aInput, aError>>
    /\ UNCHANGED <<uploadVars, segVars, peakVars, extVars>>

AnalyzeNext == AValidate \/ AExtract \/ ADetect

SpecAnalyze == AnalyzeInit /\ [][AnalyzeNext]_vars

(***************************************************************************)
(* Claims about analyze                                                    *)
(***************************************************************************)

\* Frames of the input in which the hand (the body) landmark reaches the
\* visibility threshold of the configuration.
C4_HandSeen == {i \in 1..Len(aInput.frames) :
                  aInput.frames[i].visHand >= aInput.config.visThreshold}
C4_BodySeen == {i \in 1..Len(aInput.frames) :
                  aInput.frames[i].visBody >= aInput.config.visThreshold}

C4_TooFewFrames == Cardinality(C4_HandSeen \cup C4_BodySeen) < 2
C4_BadFps == ~aInput.fps.finite \/ aInput.fps.value <= 0

C4_Complete(result) ==
    /\ DOMAIN result = {"metrics", "peaks", "cycles", "stroke_rate", "no_cycles"}
    /\ DOMAIN result.metrics = {"hand_y", "hand_velocity", "body_roll"}

DetFrames == 3

\* Invocations 1 and 2 are called with identical arguments, invocation 3 with
\* other ones.
Invocations == {1, 2, 3}

\* A second configuration: a lower visibility threshold, under which the
\* occluded landmarks of the model count as present.
AltConfig == [DefaultConfig EXCEPT !.visThreshold = 2]
DetConfigs == {DefaultConfig, AltConfig}
OtherConfig(cfg) == IF cfg = DefaultConfig THEN AltConfig ELSE DefaultConfig

PositiveFps == [finite |-> TRUE, value |-> 30]

\* analyze as a function of its arguments: the hard failure, or the result.
Analyze(frames, fps, cfg) ==
    LET e == InputError(frames, fps, cfg)
    IN IF e # Null THEN [error |-> e, result |-> NoData]
       ELSE [error |-> Null,
             result |-> DetectResult(frames, fps, cfg, ExtractMetrics(frames, fps, cfg))]

\* Variant of ConfigUsed that reads the process-wide configuration.
ConfigUsed_ProcessWide(i) == dProcessConfig

\* The configuration an invocation works with: the one passed to it.
ConfigUsed(i) == dArgs[i].config

DetInit ==
    /\ \E frames \in LandmarkSequences(DetFrames), cfg \in DetConfigs :
         /\ InputError(frames, PositiveFps, cfg) = Null
         /\ dArgs = [i \in Invocations |->
                       [frames |-> frames, fps |-> PositiveFps,
                        config |-> IF i = 3 THEN OtherConfig(cfg) ELSE cfg]]
    /\ dPc = [i \in Invocations |-> "idle"]
    /\ dResult = [i \in Invocations |-> NoData]
    /\ dProcessConfig = DefaultConfig
    /\ CoreIdle /\ SymIdle /\ TrimIdle /\ DashIdle /\ ViewIdle

\* A caller invokes analyze.
DStart(i) ==
    /\ dPc[i] = "idle"
    /\ dPc' = [dPc EXCEPT ![i] = "running"]
    /\ UNCHANGED <<dArgs, dResult, dProcessConfig>>
    /\ UNCHANGED notDet

\* The invocation returns.
DFinish(i) ==
    /\ dPc[i] = "running"
    /\ dResult' = [dResult EXCEPT ![i] =
                     Analyze(dArgs[i].frames, dArgs[i].fps, ConfigUsed(i))]
    /\ dPc' = [dPc EXCEPT ![i] = "done"]
    /\ UNCHANGED <<dArgs, dProcessConfig>>
    /\ UNCHANGED notDet

\* Somebody else in the process changes the process-wide configuration.
DReconfigure(cfg) ==
    /\ cfg # dProcessConfig
    /\ dProcessConfig' = cfg
    /\ UNCHANGED <<dArgs, dPc, dResult>>
    /\ UNCHANGED notDet

DetNext ==
    \/ \E i \in Invocations : DStart(i)
    \/ \E i \in Invocations : DFinish(i)
    \/ \E cfg \in DetConfigs : DReconfigure(cfg)

SpecDet == DetInit /\ [][DetNext]_vars

MaxSeriesLen == 3

\* Correlation and index are kept in hundredths: -100..100 and 0..100.
Hundred == 100

\* Samples of a left or right metric series.
SymSamples == {0, 1, NaN}

RECURSIVE SumOver(_, _)
\* Sum of f over the index set S.
SumOver(f, S) ==
    IF S = {} THEN 0
    ELSE LET i == CHOOSE j \in S : TRUE IN f[i] + SumOver(f, S \ {i})

\* Integer square root.
ISqrt(x) == CHOOSE k \in 0..x : k * k <= x /\ x < (k + 1) * (k + 1)

\* The frames at which both series of a pair are defined.
PairedFrames(pair) ==
    {i \in 1..Len(pair.left) : pair.left[i] # NaN /\ pair.right[i] # NaN}

\* Pearson correlation over the paired frames P, in hundredths; NaN when a
\* series has no variance there, except that identical series correlate fully.
Correlation(pair, P) ==
    LET n == Cardinality(P)
        sx == SumOver(pair.left, P)
        sy == SumOver(pair.right, P)
        sxy == SumOver([i \in P |-> pair.left[i] * pair.right[i]], P)
        sxx == SumOver([i \in P |-> pair.left[i] * pair.left[i]], P)
        syy == SumOver([i \in P |-> pair.right[i] * pair.right[i]], P)
        cov == n * sxy - sx * sy
        vx == n * sxx - sx * sx
        vy == n * syy - sy * sy
    IN IF \A i \in P : pair.left[i] = pair.right[i] THEN Hundred
       ELSE IF vx = 0 \/ vy = 0 THEN NaN
       ELSE LET r == ISqrt((Hundred * Hundred * cov * cov) \div (vx * vy))
            IN IF cov < 0 THEN 0 - r ELSE r

\* The SymmetryStat of one pair.
SymmetryStat(pair, minPaired) ==
    LET P == PairedFrames(pair)
        rho == IF Cardinality(P) < minPaired THEN NaN ELSE Correlation(pair, P)
    IN IF rho = NaN
       THEN [metric_pair |-> pair.name, defined |-> FALSE, correlation |-> 0,
             index |-> 0, insufficient |-> TRUE]
       ELSE [metric_pair |-> pair.name, defined |-> TRUE, correlation |-> rho,
             index |-> (rho + Hundred) \div 2, insufficient |-> FALSE]

\* Variant of SymmetryStats that reports no symmetry at all once one pair has
\* too few paired samples.
SymmetryStats_AllOrNothing(pairs, minPaired) ==
    LET short == \E k \in 1..Len(pairs) :
                   Cardinality(PairedFrames(pairs[k])) < minPaired
    IN [k \in 1..Len(pairs) |->
          IF short THEN SymmetryStat(pairs[k], Len(pairs[k].left) + 1)
          ELSE SymmetryStat(pairs[k], minPaired)]

\* The SymmetryStat list: one stat per pair, in order.
SymmetryStats(pairs, minPaired) ==
    [k \in 1..Len(pairs) |-> SymmetryStat(pairs[k], minPaired)]

\* Reference pairs that accompany the pair under study: a symmetric one, an
\* opposed one, and one with a landmark gap.
RefSeries == [i \in 1..MaxSeriesLen |-> i % 2]
RefPairs ==
    { [name |-> "knee", left |-> RefSeries, right |-> RefSeries],
      [name |-> "knee", left |-> RefSeries,
       right |-> [i \in 1..MaxSeriesLen |-> 1 - RefSeries[i]]],
      [name |-> "knee", left |-> RefSeries,
       right |-> [i \in 1..MaxSeriesLen |-> IF i = 1 THEN NaN ELSE RefSeries[i]]] }

SymInit ==
    /\ \E l, r \in [1..MaxSeriesLen -> SymSamples], ref \in RefPairs, first \in BOOLEAN :
         LET elbow == [name |-> "elbow", left |-> l, right |-> r]
         IN symPairs = IF first THEN <<elbow, ref>> ELSE <<ref, elbow>>
    /\ symMinPaired \in 2..MaxSeriesLen
    /\ symPc = "start"
    /\ symStats = <<>>
    /\ CoreIdle /\ DetIdle /\ TrimIdle /\ DashIdle /\ ViewIdle

\* The symmetry step of the analysis.
SymCompute ==
    /\ symPc = "start"
    /\ symStats' = SymmetryStats(symPairs, symMinPaired)
    /\ symPc' = "done"
    /\ UNCHANGED <<symPairs, symMinPaired>>
    /\ UNCHANGED notSym

SymNext == SymCompute

SpecSym == SymInit /\ [][SymNext]_vars

\* The list of pairs without its k-th element.
C12_Without(pairs, k) == SubSeq(pairs, 1, k - 1) \o SubSeq(pairs, k + 1, Len(pairs))

\* C12: a pair with fewer than the configured minimum of paired non-NaN
\* samples has its SymmetryStat undefined (NaN) and flagged; every other
\* pair's SymmetryStat is the one the analysis without the failing pair gives.
C12_OnlyFailingPairFlagged ==
    symPc = "done" =>
        /\ Len(symStats) = Len(symPairs)
        /\ \A k \in 1..Len(symPairs) :
             Cardinality(PairedFrames(symPairs[k])) < symMinPaired =>
               /\ ~symStats[k].defined
               /\ symStats[k].insufficient
               /\ C12_Without(symStats, k)
                    = SymmetryStats(C12_Without(symPairs, k), symMinPaired)

\* The elbow pair has a single paired sample and is flagged, while the knee
\* pair next to it is fully symmetric.
C12_Witness ==
    /\ symPc = "done"
    /\ symMinPaired = 2
    /\ Cardinality(PairedFrames(symPairs[1])) = 1
    /\ symStats[1].insufficient
    /\ symStats[2].defined
    /\ symStats[2].index = Hundred

(***************************************************************************)
(* Part III.  Components of the frontend.                                  *)
(***************************************************************************)

(*************************** VideoTrimmer **********************************)

\* Times are kept in units of 0.1 ms, finer than the millisecond the confirmed
\* values are rounded to.
Second == 10000
Millisecond == 10
\* step={0.1} of the two range inputs
SliderStep == 1000
\* maxDuration={300}
MaxDurationProp == 300 * Second

\* video.duration as the media element reports it: not finite, zero, or a
\* positive number of seconds that need not lie on a slider step.
VideoDurations ==
    { [finite |-> FALSE, value |-> 0],
      [finite |-> TRUE, value |-> 0],
      [finite |-> TRUE, value |-> 10 * Second + 3],
      [finite |-> TRUE, value |-> 120 * Second],
      [finite |-> TRUE, value |-> 400 * Second + 1234] }

\* Positions of a range input (min 0, max duration, step 0.1): some of the
\* multiples of the step that do not exceed the duration.
SliderMarks ==
    {0, SliderStep, Second, 10 * Second, 100 * Second, 120 * Second,
     350 * Second, 400 * Second}
SliderValues(duration) == {v \in SliderMarks : v <= duration}

Min(a, b) == IF a <= b THEN a ELSE b
Max(a, b) == IF a >= b THEN a ELSE b

\* Math.round(x * 1000) / 1000, as a number of milliseconds.
RoundMs(x) == (x + (Millisecond \div 2)) \div Millisecond

\* Variant of StartChangeEnd without the maximum-duration adjustment.
StartChangeEnd_NoLimit(newStart, endTime, duration, maxDuration) ==
    IF newStart >= endTime THEN Min(newStart + Second, duration) ELSE endTime

\* endTime after handleStartChange(newStart); both tests read the endTime of
\* the render the handler belongs to.
StartChangeEnd(newStart, endTime, duration, maxDuration) ==
    LET limited == IF endTime - newStart > maxDuration
                   THEN newStart + maxDuration ELSE endTime
    IN IF newStart >= endTime THEN Min(newStart + Second, duration) ELSE limited

\* startTime after handleEndChange(newEnd).
EndChangeStart(newEnd, startTime, maxDuration) ==
    LET limited == IF newEnd - startTime > maxDuration
                   THEN newEnd - maxDuration ELSE startTime
    IN IF newEnd <= startTime THEN Max(newEnd - Second, 0) ELSE limited

\* Variant of IsValidSelection without the lower bound.
IsValidSelection_NoLowerBound(startTime, endTime, maxDuration) ==
    endTime - startTime <= maxDuration

IsValidSelection(startTime, endTime, maxDuration) ==
    endTime - startTime > 0 /\ endTime - startTime <= maxDuration

\* The trimData handleConfirm builds, in milliseconds.
TrimData(startTime, endTime) ==
    [startTime |-> RoundMs(startTime),
     endTime |-> RoundMs(endTime),
     duration |-> RoundMs(endTime - startTime)]

\* The dashboard shows the trimmer for a chosen file.
TrimInit ==
    /\ trDuration = 0
    /\ trStart = 0
    /\ trEnd = 0
    /\ trPc = "open"
    /\ trConfirmed = NoTrim
    /\ CoreIdle /\ DetIdle /\ SymIdle /\ DashIdle /\ ViewIdle

\* onLoadedMetadata
HandleLoadedMetadata(dur) ==
    /\ trPc = "open"
    /\ IF ~dur.finite \/ dur.value <= 0
       THEN UNCHANGED <<trDuration, trStart, trEnd>>
       ELSE /\ trDuration' = dur.value
            /\ trStart' = 0
            /\ trEnd' = Min(dur.value, MaxDurationProp)
    /\ UNCHANGED <<trPc, trConfirmed>>
    /\ UNCHANGED notTrim

\* onDurationChange
HandleDurationChange(dur) ==
    /\ trPc = "open"
    /\ IF dur.finite /\ dur.value > 0 /\ (trDuration = 0 \/ trDuration # dur.value)
       THEN /\ trDuration' = dur.value
            /\ trEnd' = Min(dur.value, MaxDurationProp)
            /\ UNCHANGED trStart
       ELSE UNCHANGED <<trDuration, trStart, trEnd>>
    /\ UNCHANGED <<trPc, trConfirmed>>
    /\ UNCHANGED notTrim

\* onChange of the start handle
HandleStartChange(newStart) ==
    /\ trPc = "open"
    /\ newStart \in SliderValues(trDuration)
    /\ trStart' = newStart
    /\ trEnd' = StartChangeEnd(newStart, trEnd, trDuration, MaxDurationProp)
    /\ UNCHANGED <<trDuration, trPc, trConfirmed>>
    /\ UNCHANGED notTrim

\* onChange of the end handle
HandleEndChange(newEnd) ==
    /\ trPc = "open"
    /\ newEnd \in SliderValues(trDuration)
    /\ trEnd' = newEnd
    /\ trStart' = EndChangeStart(newEnd, trStart, MaxDurationProp)
    /\ UNCHANGED <<trDuration, trPc, trConfirmed>>
    /\ UNCHANGED notTrim

\* handleConfirm; onConfirm makes the dashboard close the trimmer.
HandleConfirm ==
    /\ trPc = "open"
    /\ IF IsValidSelection(trStart, trEnd, MaxDurationProp)
       THEN /\ trConfirmed' = TrimData(trStart, trEnd)
            /\ trPc' = "confirmed"
       ELSE UNCHANGED <<trPc, trConfirmed>>
    /\ UNCHANGED <<trDuration, trStart, trEnd>>
    /\ UNCHANGED notTrim

TrimNext ==
    \/ \E dur \in VideoDurations : HandleLoadedMetadata(dur)
    \/ \E dur \in VideoDurations : HandleDurationChange(dur)
    \/ \E v \in SliderMarks : HandleStartChange(v)
    \/ \E v \in SliderMarks : HandleEndChange(v)
    \/ HandleConfirm

SpecTrim == TrimInit /\ [][TrimNext]_vars

\* C14: in every reachable state of the trimmer the selected range is at most
\* maxDuration long.
C14_RangeWithinLimit == trEnd - trStart <= MaxDurationProp

\* The video is longer than the limit and the start handle was moved: the end
\* followed, and the selection is exactly maxDuration long.
C14_Witness ==
    /\ trDuration > MaxDurationProp
    /\ trStart = SliderStep
    /\ trEnd = SliderStep + MaxDurationProp

\* The selection a confirm step starts from is valid.
C15_SelectionValid ==
    trEnd - trStart > 0 /\ trEnd - trStart <= MaxDurationProp

\* C15 as stated: onConfirm is called only from a selection with
\* 0 < endTime - startTime <= maxDuration, and the payload (rounded to
\* milliseconds) has startTime >= 0, startTime < endTime and
\* duration = endTime - startTime; nothing else calls it.
C15_PayloadStrictlyOrdered ==
    [][trConfirmed' # trConfirmed =>
         /\ C15_SelectionValid
         /\ trConfirmed = NoTrim
         /\ trConfirmed'.startTime >= 0
         /\ trConfirmed'.startTime < trConfirmed'.endTime
         /\ trConfirmed'.duration = trConfirmed'.endTime - trConfirmed'.startTime]_vars

\* C15: onConfirm is called only from a selection with
\* 0 < endTime - startTime <= maxDuration, at most once, and the payload
\* (rounded to milliseconds) has 0 <= startTime <= endTime and
\* duration = endTime - startTime; startTime < endTime holds whenever the
\* selection is at least a millisecond long.  With an invalid selection a
\* confirm changes nothing.
C15_ConfirmOnlyValidSelection ==
    [][/\ trConfirmed' # trConfirmed =>
            /\ C15_SelectionValid
            /\ trConfirmed = NoTrim
            /\ trConfirmed'.startTime >= 0
            /\ trConfirmed'.startTime <= trConfirmed'.endTime
            /\ trConfirmed'.duration = trConfirmed'.endTime - trConfirmed'.startTime
            /\ (trEnd - trStart >= Millisecond =>
                  trConfirmed'.startTime < trConfirmed'.endTime)
       /\ (HandleConfirm /\ ~C15_SelectionValid) => UNCHANGED vars]_vars

\* A confirmed selection whose end is the video's duration, off the
\* millisecond grid.
C15_Witness ==
    /\ trPc = "confirmed"
    /\ trEnd % Millisecond # 0
    /\ trConfirmed.endTime = RoundMs(trEnd)
    /\ trConfirmed.duration > 0

(*************************** DashboardPage and useVideoMetrics *************)

\* Bound of the dashboard runs: the number of user and socket events.
MaxDashEvents == 3

\* setTimeout(..., 500)
RefetchDelay == 500
\* Time passes in steps of 250 ms while the timer is pending.
TickMs == 250

\* Values of progress: startProcessing (0), processing_progress events.
ProgressValues == {0, 50, 100, 150}

\* How a GET /metrics/<id> may settle.
MetricsOutcomes(id) ==
    { [kind |-> "ok", hasData |-> TRUE, metrics |-> "metrics of " \o id,
       narrative |-> "narrative of " \o id],
      [kind |-> "ok", hasData |-> TRUE, metrics |-> "metrics of " \o id,
       narrative |-> Null],
      [kind |-> "ok", hasData |-> FALSE, metrics |-> Null, narrative |-> Null],
      [kind |-> "http_error", status |-> 404],
      [kind |-> "http_error", status |-> 500],
      [kind |-> "no_response", status |-> 0] }

\* response.data.x ?? {}
OrEmpty(x) == IF x = Null THEN EmptyObject ELSE x

\* Variant of SettleError that reports every rejected request.
SettleError_No404Check(o) ==
    CASE o.kind = "ok" /\ o.hasData -> Null
      [] o.kind = "ok" -> "TypeError"
      [] o.kind = "http_error" -> "HTTP " \o ToString(o.status)
      [] OTHER -> "Network Error"

\* The error fetchMetrics ends up setting (Null: none).  Reading
\* response.data.metrics of a response without data throws inside the try.
SettleError(o) ==
    CASE o.kind = "ok" /\ o.hasData -> Null
      [] o.kind = "ok" -> "TypeError"
      [] o.kind = "http_error" /\ o.status = 404 -> Null
      [] o.kind = "http_error" -> "HTTP " \o ToString(o.status)
      [] OTHER -> "Network Error"

\* fetchMetrics of the render with video id v, up to its await.
FetchMetrics(v) ==
    IF v = ""
    THEN UNCHANGED <<vmIsLoading, vmError, metricsPending, metricsSent>>
    ELSE /\ vmIsLoading' = TRUE
         /\ vmError' = Null
         /\ metricsPending' = [metricsPending EXCEPT ![v] = @ + 1]
         /\ metricsSent' = Append(metricsSent, v)

\* Variant of RefetchTimerAfter that waits for a progress of exactly 100.
RefetchTimerAfter_Exactly100(p, v) ==
    IF p = 100 /\ v # "" THEN RefetchDelay ELSE NoTimer

\* The refetch effect of the dashboard, run after one of its dependencies
\* changed: the cleanup cleared the old timer, a new one is set if processing
\* is complete and there is a current video.
RefetchTimerAfter(p, v) ==
    IF p >= 100 /\ v # "" THEN RefetchDelay ELSE NoTimer

DashInit ==
    /\ currentVideoId = ""
    /\ progress = 0
    /\ vmMetrics = EmptyObject
    /\ vmNarrative = EmptyObject
    /\ vmIsLoading = FALSE
    /\ vmError = Null
    /\ metricsPending = [v \in VideoIds |-> 0]
    /\ metricsSent = <<>>
    /\ refetchTimer = NoTimer
    /\ refetchCalls = <<>>
    /\ dashEvents = 0
    /\ dashMounted = FALSE
    /\ CoreIdle /\ DetIdle /\ SymIdle /\ TrimIdle /\ ViewIdle

\* First render: the effects of useVideoMetrics and of the dashboard run with
\* the initial state.
DashMount ==
    /\ ~dashMounted
    /\ dashMounted' = TRUE
    /\ FetchMetrics(currentVideoId)
    /\ refetchTimer' = RefetchTimerAfter(progress, currentVideoId)
    /\ UNCHANGED <<currentVideoId, progress, vmMetrics, vmNarrative, refetchCalls,
                   dashEvents>>
    /\ UNCHANGED notDash

\* setCurrentVideoId(id), called as onUploaded; the effects that depend on the
\* video id run again.
SetCurrentVideoId(id) ==
    /\ dashMounted
    /\ dashEvents < MaxDashEvents
    /\ id # currentVideoId
    /\ dashEvents' = dashEvents + 1
    /\ currentVideoId' = id
    /\ FetchMetrics(id)
    /\ refetchTimer' = RefetchTimerAfter(progress, id)
    /\ UNCHANGED <<progress, vmMetrics, vmNarrative, refetchCalls, dashMounted>>
    /\ UNCHANGED notDash

\* The progress value changes (startProcessing, a processing_progress event);
\* an event that repeats the current value re-runs no effect.
ProgressEvent(p) ==
    /\ dashMounted
    /\ dashEvents < MaxDashEvents
    /\ dashEvents' = dashEvents + 1
    /\ progress' = p
    /\ refetchTimer' = IF p # progress THEN RefetchTimerAfter(p, currentVideoId)
                       ELSE refetchTimer
    /\ UNCHANGED <<currentVideoId, vmMetrics, vmNarrative, vmIsLoading, vmError,
                   metricsPending, metricsSent, refetchCalls, dashMounted>>
    /\ UNCHANGED notDash

\* Time passes while the refetch timer is pending.
Tick ==
    /\ refetchTimer > 0
    /\ refetchTimer' = refetchTimer - TickMs
    /\ UNCHANGED <<currentVideoId, progress, vmMetrics, vmNarrative, vmIsLoading,
                   vmError, metricsPending, metricsSent, refetchCalls, dashEvents,
                   dashMounted>>
    /\ UNCHANGED notDash

\* The refetch timer expires: refetchMetrics().
TimerFire ==
    /\ refetchTimer = 0
    /\ refetchTimer' = NoTimer
    /\ refetchCalls' = Append(refetchCalls, [videoId |-> currentVideoId,
                                              progress |-> progress])
    /\ FetchMetrics(currentVideoId)
    /\ UNCHANGED <<currentVideoId, progress, vmMetrics, vmNarrative, dashEvents,
                   dashMounted>>
    /\ UNCHANGED notDash

\* A GET /metrics/<v> settles: the rest of fetchMetrics.
MetricsSettle(v, o) ==
    /\ metricsPending[v] > 0
    /\ metricsPending' = [metricsPending EXCEPT ![v] = @ - 1]
    /\ IF o.kind = "ok" /\ o.hasData
       THEN /\ vmMetrics' = OrEmpty(o.metrics)
            /\ vmNarrative' = OrEmpty(o.narrative)
       ELSE UNCHANGED <<vmMetrics, vmNarrative>>
    /\ vmError' = IF SettleError(o) # Null THEN SettleError(o) ELSE vmError
    /\ vmIsLoading' = FALSE
    /\ UNCHANGED <<currentVideoId, progress, metricsSent, refetchTimer, refetchCalls,
                   dashEvents, dashMounted>>
    /\ UNCHANGED notDash

DashNext ==
    \/ DashMount
    \/ \E id \in VideoIds : SetCurrentVideoId(id)
    \/ \E p \in ProgressValues : ProgressEvent(p)
    \/ Tick
    \/ TimerFire
    \/ \E v \in VideoIds : \E o \in MetricsOutcomes(v) : MetricsSettle(v, o)

SpecDash == DashInit /\ [][DashNext]_vars

\* Timers run: time passes and an expired timer calls its callback.
FairSpecDash == SpecDash /\ WF_vars(Tick) /\ WF_vars(TimerFire)

\* C16: when a metrics request settles, isLoading becomes false whatever the
\* outcome; a 404 leaves error, metrics and narrative as they were (error is
\* null if no other request was ever sent); every other failure sets error;
\* and no request is ever sent for an empty video id.
C16_NotReadyIsNoError ==
    [][/\ \A v \in VideoIds : \A o \in MetricsOutcomes(v) :
            MetricsSettle(v, o) =>
              /\ vmIsLoading' = FALSE
              /\ (o.kind = "http_error" /\ o.status = 404) =>
                   /\ UNCHANGED <<vmError, vmMetrics, vmNarrative>>
                   /\ (Len(metricsSent) = 1 => vmError' = Null)
              /\ (\/ o.kind = "no_response"
                  \/ (o.kind = "http_error" /\ o.status # 404)
                  \/ (o.kind = "ok" /\ ~o.hasData)) =>
                   /\ vmError' # Null
                   /\ UNCHANGED <<vmMetrics, vmNarrative>>
       /\ metricsSent' # metricsSent =>
            /\ currentVideoId' # ""
            /\ metricsSent' = Append(metricsSent, currentVideoId')
       /\ (DashMount /\ currentVideoId = "") => UNCHANGED <<metricsSent, vmIsLoading>>
      ]_vars

\* The only request sent so far has settled with a 404 (every other outcome
\* sets metrics or error): nothing is loading, there is no error and metrics
\* and narrative are still the initial empty objects.
C16_Witness ==
    /\ Len(metricsSent) = 1
    /\ metricsPending = [v \in VideoIds |-> 0]
    /\ vmMetrics = EmptyObject
    /\ vmNarrative = EmptyObject
    /\ vmError = Null
    /\ vmIsLoading = FALSE

\* The refetch is due or done: with processing complete and a current video,
\* the timer is pending or refetchMetrics was called for this very progress
\* value and video.
C17_DueOrDone ==
    (dashMounted /\ progress >= 100 /\ currentVideoId # "") =>
        \/ refetchTimer # NoTimer
        \/ /\ refetchCalls # <<>>
           /\ refetchCalls[Len(refetchCalls)] =
                [videoId |-> currentVideoId, progress |-> progress]

\* C17: once progress is at least 100 with a current video id set, the refetch
\* timer runs for 500 ms and then calls refetchMetrics, which requests that
\* video's metrics; the pending call is dropped only by a change of progress
\* or of the video id (with which the refetch function changes); and unless
\* such a change comes first, the call eventually happens.
C17_RefetchAfterCompletion ==
    /\ []C17_DueOrDone
    /\ [][/\ (refetchTimer = NoTimer /\ refetchTimer' # NoTimer) =>
               refetchTimer' = RefetchDelay
          /\ (refetchTimer # NoTimer /\ refetchTimer' # refetchTimer) =>
               \/ /\ refetchTimer > 0
                  /\ refetchTimer' = refetchTimer - TickMs
                  /\ UNCHANGED <<progress, currentVideoId, refetchCalls>>
               \/ /\ refetchTimer = 0
                  /\ refetchTimer' = NoTimer
                  /\ UNCHANGED <<progress, currentVideoId>>
                  /\ refetchCalls' = Append(refetchCalls,
                                            [videoId |-> currentVideoId,
                                             progress |-> progress])
                  /\ metricsSent' = Append(metricsSent, currentVideoId)
               \/ /\ (progress' # progress \/ currentVideoId' # currentVideoId)
                  /\ refetchCalls' = refetchCalls
          /\ refetchCalls' # refetchCalls => refetchTimer = 0]_vars
    /\ \A p \in ProgressValues : \A v \in VideoIds :
         (refetchTimer # NoTimer /\ progress = p /\ currentVideoId = v)
           ~> \/ progress # p
              \/ currentVideoId # v
              \/ /\ refetchTimer = NoTimer
                 /\ refetchCalls # <<>>
                 /\ refetchCalls[Len(refetchCalls)] = [videoId |-> v, progress |-> p]

\* Processing completed for the current video, the timer ran out and
\* refetchMetrics sent a second request for it.
C17_Witness ==
    /\ progress = 100
    /\ refetchTimer = NoTimer
    /\ Len(refetchCalls) = 1
    /\ Len(metricsSent) = 2
    /\ metricsSent[2] = currentVideoId
    /\ vmIsLoading

(*************************** useKeypoints and the keypoint sync ************)

\* Bounds of the keypoint runs: frame indexes 0..MaxFrameIndex, responses of
\* at most MaxKeypointFrames frames, MaxKpEvents user events.
MaxFrameIndex == 3
MaxKeypointFrames == 2
MaxKpEvents == 3

FrameIndexes == 0..MaxFrameIndex

\* The keypoints stored with frame n of video v.
KeypointsOf(v, n) == [video |-> v, frame_index |-> n]

\* The responses of GET /keypoints/<v>: frames of distinct frame_index, in any
\* order (response.data.frames || [] makes a missing list the empty one).
KeypointResponses(v) ==
    { [k \in DOMAIN ns |-> [frame_index |-> ns[k], keypoints |-> KeypointsOf(v, ns[k])]] :
        ns \in { q \in SeqsUpTo(FrameIndexes, MaxKeypointFrames) :
                   \A a, b \in DOMAIN q : a # b => q[a] # q[b] } }

\* keypoints.find(f => f.frame_index === frameIndex): the position of the
\* first match from position k on, 0 when there is none.
RECURSIVE FindFrame(_, _, _)
FindFrame(kps, frameIndex, k) ==
    IF k > Len(kps) THEN 0
    ELSE IF kps[k].frame_index = frameIndex THEN k
    ELSE FindFrame(kps, frameIndex, k + 1)

\* The reduction with <= for <: a later frame at the same distance wins.
RECURSIVE ReduceClosest_LastWins(_, _, _, _)
ReduceClosest_LastWins(kps, frameIndex, k, prev) ==
    IF k > Len(kps) THEN prev
    ELSE ReduceClosest_LastWins(kps, frameIndex, k + 1,
           IF Abs(kps[k].frame_index - frameIndex)
                <= Abs(kps[prev].frame_index - frameIndex)
           THEN k ELSE prev)

\* keypoints.reduce((prev, curr) => |curr - i| < |prev - i| ? curr : prev):
\* the position the reduction ends with, continuing at position k with prev.
RECURSIVE ReduceClosest(_, _, _, _)
ReduceClosest(kps, frameIndex, k, prev) ==
    IF k > Len(kps) THEN prev
    ELSE ReduceClosest(kps, frameIndex, k + 1,
           IF Abs(kps[k].frame_index - frameIndex)
                < Abs(kps[prev].frame_index - frameIndex)
           THEN k ELSE prev)

\* Variant of SetFrameIndex whose reduction lets a later frame at the same
\* distance win.
SetFrameIndex_LastWins(kps, frameIndex, cur) ==
    IF Len(kps) = 0 THEN cur
    ELSE LET found == FindFrame(kps, frameIndex, 1)
             at == IF found # 0 THEN found
                   ELSE ReduceClosest_LastWins(kps, frameIndex, 2, 1)
         IN kps[at].keypoints

\* setFrameIndex(frameIndex) of the render with the list kps: the new value of
\* currentKeypoints, cur being the present one.
SetFrameIndex(kps, frameIndex, cur) ==
    IF Len(kps) = 0 THEN cur
    ELSE LET found == FindFrame(kps, frameIndex, 1)
             at == IF found # 0 THEN found ELSE ReduceClosest(kps, frameIndex, 2, 1)
         IN kps[at].keypoints

\* The dashboard's keypoint sync effect, run after a dependency changed.
SyncKeypoints(frame, vid, kps, cur) ==
    IF frame # 0 /\ vid # "" THEN SetFrameIndex(kps, frame, cur) ELSE cur

KpInit ==
    /\ kpVideoId = ""
    /\ currentFrame = 0
    /\ keypoints = <<>>
    /\ currentKeypoints = NoKeypoints
    /\ kpIsLoading = FALSE
    /\ kpError = Null
    /\ kpPending = [v \in VideoIds |-> 0]
    /\ kpEvents = 0
    /\ CoreIdle /\ DetIdle /\ SymIdle /\ TrimIdle /\ DashIdle /\ FbIdle

\* setCurrentVideoId(id): the hook's effect starts fetchKeypoints for the new
\* id and the sync effect runs with the list fetched so far.
KpSetCurrentVideoId(id) ==
    /\ kpEvents < MaxKpEvents
    /\ id # kpVideoId
    /\ kpEvents' = kpEvents + 1
    /\ kpVideoId' = id
    /\ kpIsLoading' = TRUE
    /\ kpError' = Null
    /\ kpPending' = [kpPending EXCEPT ![id] = @ + 1]
    /\ currentKeypoints' = SyncKeypoints(currentFrame, id, keypoints, currentKeypoints)
    /\ UNCHANGED <<currentFrame, keypoints>>
    /\ UNCHANGED notKp

\* setCurrentFrame(i), from the player or the navigator; the sync effect runs.
SetCurrentFrame(i) ==
    /\ kpEvents < MaxKpEvents
    /\ i # currentFrame
    /\ kpEvents' = kpEvents + 1
    /\ currentFrame' = i
    /\ currentKeypoints' = SyncKeypoints(i, kpVideoId, keypoints, currentKeypoints)
    /\ UNCHANGED <<kpVideoId, keypoints, kpIsLoading, kpError, kpPending>>
    /\ UNCHANGED notKp

\* GET /keypoints/<v> resolves with the list fs: the rest of fetchKeypoints,
\* then the sync effect, which runs because setFrameIndex changed with the list.
KpFetchResolve(v, fs) ==
    /\ kpPending[v] > 0
    /\ kpPending' = [kpPending EXCEPT ![v] = @ - 1]
    /\ keypoints' = fs
    /\ currentKeypoints' =
         SyncKeypoints(currentFrame, kpVideoId, fs,
                       IF Len(fs) > 0 THEN fs[1].keypoints ELSE currentKeypoints)
    /\ kpIsLoading' = FALSE
    /\ UNCHANGED <<kpVideoId, currentFrame, kpError, kpEvents>>
    /\ UNCHANGED notKp

\* GET /keypoints/<v> fails.
KpFetchReject(v) ==
    /\ kpPending[v] > 0
    /\ kpPending' = [kpPending EXCEPT ![v] = @ - 1]
    /\ kpError' = "Error"
    /\ kpIsLoading' = FALSE
    /\ UNCHANGED <<kpVideoId, currentFrame, keypoints, currentKeypoints, kpEvents>>
    /\ UNCHANGED notKp

KpNext ==
    \/ \E id \in VideoIds : KpSetCurrentVideoId(id)
    \/ \E i \in FrameIndexes : SetCurrentFrame(i)
    \/ \E v \in VideoIds : \E fs \in KeypointResponses(v) : KpFetchResolve(v, fs)
    \/ \E v \in VideoIds : KpFetchReject(v)

SpecKp == KpInit /\ [][KpNext]_vars

\* The least element of a non-empty set of positions.
FirstOf(S) == CHOOSE k \in S : \A j \in S : k <= j

\* What setFrameIndex(i) is to select from the list kps: the keypoints of the
\* frame with frame_index i, else of the first frame of the list among those
\* nearest to i; cur when the list is empty.
C19_Selected(kps, i, cur) ==
    IF kps = <<>> THEN cur
    ELSE LET exact == {k \in DOMAIN kps : kps[k].frame_index = i}
             nearest == {k \in DOMAIN kps :
                           \A j \in DOMAIN kps :
                               Abs(kps[k].frame_index - i) <= Abs(kps[j].frame_index - i)}
         IN IF exact # {} THEN kps[FirstOf(exact)].keypoints
            ELSE kps[FirstOf(nearest)].keypoints

\* C19: setFrameIndex(i) selects the frame whose frame_index is i when there
\* is one, otherwise a frame nearest to i, the first of the list among equally
\* near ones; with no keypoints loaded it changes nothing.  This holds of
\* setFrameIndex on every list the hook comes to hold and of every call the
\* dashboard makes.
C19_SetFrameIndexSelectsNearest ==
    [][/\ \A i \in FrameIndexes :
            SetFrameIndex(keypoints', i, currentKeypoints')
              = C19_Selected(keypoints', i, currentKeypoints')
       /\ \A i \in FrameIndexes :
            (SetCurrentFrame(i) /\ i # 0 /\ kpVideoId # "") =>
               /\ currentKeypoints' = C19_Selected(keypoints, i, currentKeypoints)
               /\ (keypoints = <<>> => UNCHANGED <<currentKeypoints, keypoints>>)
      ]_vars

\* Frame 2 is current and the list holds frames 0 and 3 in this order: the
\* keypoints of frame 3, the nearer one, are selected.
C19_Witness ==
    /\ currentFrame = 2
    /\ kpVideoId # ""
    /\ Len(keypoints) = 2
    /\ keypoints[1].frame_index = 0
    /\ keypoints[2].frame_index = 3
    /\ currentKeypoints = keypoints[2].keypoints
    /\ kpPending = [v \in VideoIds |-> 0]

\* C18: whenever currentFrame changes for a loaded video, currentKeypoints
\* become the keypoints of the fetched frame closest to the new currentFrame,
\* for every frame index including 0.
C18_KeypointsFollowFrame ==
    [][(currentFrame' # currentFrame /\ kpVideoId # "" /\ keypoints # <<>>) =>
          currentKeypoints' = C19_Selected(keypoints, currentFrame', currentKeypoints)
      ]_vars

(*************************** FeedbackPanel *********************************)

\* Bound of the feedback runs: the length of the improvements and of the
\* timeline_segments list.
MaxItems == 2

\* A property the object does not have.
Undefined == "undefined"

\* Times are in tenths of a second.
TenthsPerSecond == 10
SecondsPerMinute == 60

\* The improvements a bundle may hold: name and explanation, and maybe a tip,
\* maybe a drill.
Improvements ==
    [name : {"Elbow drop"}, explanation : {"The elbow leads the hand."},
     tip : {Undefined, "", "Fingertip drag"}, drill : {Undefined, "Catch-up"}]

\* Start, end and status of the timeline segments.
Spans ==
    { [start_time |-> 0, end_time |-> 599, status |-> "good"],
      [start_time |-> 655, end_time |-> 1259, status |-> "poor"] }

\* The timeline segments a bundle may hold: maybe a feedback, maybe a text.
TimelineSegments ==
    { [start_time |-> sp.start_time, end_time |-> sp.end_time, status |-> sp.status,
       title |-> "Stroke " \o sp.status, feedback |-> fb, text |-> tx] :
        sp \in Spans, fb \in {Undefined, "Keep the elbow high."},
        tx \in {Undefined, "Hips are dropping."} }

\* The coaching props: none, or a bundle.
CoachingProps ==
    {NoCoaching} \cup
    { [present |-> TRUE, improvements |-> imps, timeline_segments |-> segs] :
        imps \in SeqsUpTo(Improvements, MaxItems),
        segs \in SeqsUpTo(TimelineSegments, MaxItems) }

\* What React puts on the page for {x}: nothing for undefined.
Display(x) == IF x = Undefined THEN "" ELSE x

\* JavaScript truthiness of a string or undefined.
Truthy(x) == x # Undefined /\ x # ""

\* secs.toString().padStart(2, "0")
PadStart2(n) == IF n < 10 THEN "0" \o ToString(n) ELSE ToString(n)

\* formatTime(seconds), the time given in tenths of a second.
FormatTime(t) ==
    LET mins == t \div (SecondsPerMinute * TenthsPerSecond)
        secs == (t % (SecondsPerMinute * TenthsPerSecond)) \div TenthsPerSecond
    IN ToString(mins) \o ":" \o PadStart2(secs)

\* getStatusColor(status)
GetStatusColor(status) ==
    CASE status = "excellent" -> "#10b981"
      [] status = "good" -> "#3b82f6"
      [] status = "needs_work" -> "#f59e0b"
      [] OTHER -> "#94a3b8"

\* Variant of RenderImprovement that reads the drill property.
RenderImprovement_ReadsDrill(imp) ==
    [name |-> Display(imp.name),
     explanation |-> Display(imp.explanation),
     tip |-> IF Truthy(imp.drill) THEN "Drill: " \o imp.drill ELSE ""]

\* One coaching-item of the Focus Areas section.
RenderImprovement(imp) ==
    [name |-> Display(imp.name),
     explanation |-> Display(imp.explanation),
     tip |-> IF Truthy(imp.tip) THEN "Drill: " \o imp.tip ELSE ""]

\* One timeline-segment of the Timeline Breakdown section.
RenderSegment(seg) ==
    [className |-> "timeline-segment " \o seg.status,
     borderLeftColor |-> GetStatusColor(seg.status),
     time |-> FormatTime(seg.start_time) \o " - " \o FormatTime(seg.end_time),
     title |-> Display(seg.title),
     feedback |-> Display(seg.feedback)]

\* The Focus Areas and Timeline Breakdown part of what FeedbackPanel returns.
FeedbackPanel(c) ==
    IF c.present
    THEN [ui |-> "coaching",
          improvements |-> [i \in DOMAIN c.improvements |->
                              RenderImprovement(c.improvements[i])],
          timeline |-> [i \in DOMAIN c.timeline_segments |->
                          RenderSegment(c.timeline_segments[i])]]
    ELSE [ui |-> "fallback"]

FbInit ==
    /\ coaching \in CoachingProps
    /\ fbPc = "props"
    /\ fbRendered = NoRender
    /\ CoreIdle /\ DetIdle /\ SymIdle /\ TrimIdle /\ DashIdle /\ KpIdle

\* The panel is rendered with the coaching prop.
FbRender ==
    /\ fbPc = "props"
    /\ fbPc' = "rendered"
    /\ fbRendered' = FeedbackPanel(coaching)
    /\ UNCHANGED coaching
    /\ UNCHANGED notFb

FbNext == FbRender

SpecFb == FbInit /\ [][FbNext]_vars

\* The clock reading of the times of Spans.
C20_Clock(t) ==
    CASE t = 0 -> "0:00"
      [] t = 599 -> "0:59"
      [] t = 655 -> "1:05"
      [] t = 1259 -> "2:05"

\* Name and explanation of every improvement and time span, status (as style)
\* and title of every timeline segment are on the page, in the order of the
\* bundle.
C20_CommonFieldsShown ==
    /\ Len(fbRendered.improvements) = Len(coaching.improvements)
    /\ Len(fbRendered.timeline) = Len(coaching.timeline_segments)
    /\ \A i \in DOMAIN coaching.improvements :
         /\ fbRendered.improvements[i].name = coaching.improvements[i].name
         /\ fbRendered.improvements[i].explanation = coaching.improvements[i].explanation
    /\ \A i \in DOMAIN coaching.timeline_segments :
         LET seg == coaching.timeline_segments[i]
             out == fbRendered.timeline[i]
         IN /\ out.time = C20_Clock(seg.start_time) \o " - " \o C20_Clock(seg.end_time)
            /\ out.className = "timeline-segment " \o seg.status
            /\ out.borderLeftColor = (IF seg.status = "good" THEN "#3b82f6" ELSE "#94a3b8")
            /\ out.title = seg.title

\* C20 as stated: for every improvement that has a drill the drill is
\* displayed, and for every timeline segment its text is displayed, together
\* with name, explanation, start/end time, status and title.
C20_DrillAndTextShown ==
    (fbPc = "rendered" /\ coaching.present) =>
        /\ C20_CommonFieldsShown
        /\ \A i \in DOMAIN coaching.improvements :
             coaching.improvements[i].drill # Undefined =>
                fbRendered.improvements[i].tip = "Drill: " \o coaching.improvements[i].drill
        /\ \A i \in DOMAIN coaching.timeline_segments :
             fbRendered.timeline[i].feedback = Display(coaching.timeline_segments[i].text)

\* C20, amended: the panel reads the properties tip and feedback.  For every
\* improvement with a non-empty tip the tip is displayed after "Drill:" (and
\* no drill line otherwise), and for every timeline segment its feedback is
\* displayed, together with name, explanation, start/end time, status and
\* title; the properties drill and text are not read.
C20_TipAndFeedbackShown ==
    (fbPc = "rendered" /\ coaching.present) =>
        /\ C20_CommonFieldsShown
        /\ \A i \in DOMAIN coaching.improvements :
             LET imp == coaching.improvements[i]
             IN fbRendered.improvements[i].tip =
                  (IF imp.tip \in {Undefined, ""} THEN "" ELSE "Drill: " \o imp.tip)
        /\ \A i \in DOMAIN coaching.timeline_segments :
             LET seg == coaching.timeline_segments[i]
             IN fbRendered.timeline[i].feedback =
                  (IF seg.feedback = Undefined THEN "" ELSE seg.feedback)

\* A rendered bundle whose first improvement has a tip and a different drill
\* and whose second timeline segment has a feedback and a different text.
C20_Witness ==
    /\ fbPc = "rendered"
    /\ coaching.present
    /\ Len(coaching.improvements) = 2
    /\ Len(coaching.timeline_segments) = 2
    /\ coaching.improvements[1].tip = "Fingertip drag"
    /\ coaching.improvements[1].drill = "Catch-up"
    /\ fbRendered.improvements[1].tip = "Drill: Fingertip drag"
    /\ coaching.timeline_segments[2].text = "Hips are dropping."
    /\ fbRendered.timeline[2].feedback = "Keep the elbow high."
    /\ fbRendered.timeline[2].time = "1:05 - 2:05"

====
